---- MODULE Spec2Model ----
(***************************************************************************)
(* e2fsck/journal.c: the ext3 journal consistency check and recovery       *)
(* driver, modelled as a state machine.                                    *)
(*                                                                         *)
(* Spec     one call of e2fsck_check_ext3_journal or of                    *)
(*          e2fsck_run_ext3_journal, from any superblock / journal image,  *)
(*          with every answer of fix_problem and every I/O outcome.        *)
(* SpecBuf  the block buffer layer alone (getblk, ll_rw_block,             *)
(*          mark_buffer_dirty, wait_on_buffer, brelse) under arbitrary     *)
(*          call sequences.                                                *)
(***************************************************************************)
EXTENDS Integers, Sequences, FiniteSets, TLC

VARIABLES
    pc,             \* position in the running operation
    op,             \* "none" | "check" | "run": the entry point called
    ret_to,         \* who called e2fsck_journal_fix_bad_inode
    retval,         \* the retval local / value returned
    readonly,       \* ctx->options & E2F_OPT_READONLY
    sb,             \* ctx->fs->super, the in-memory filesystem superblock
    super_dirty,    \* set by ext2fs_mark_super_dirty
    journal,        \* the journal_t handle, or NoJournal
    recover,        \* the local `recover' of e2fsck_check_ext3_journal
    reset,          \* the local `reset' of e2fsck_check_ext3_journal
    recover_retval, \* the local of e2fsck_run_ext3_journal
    bhs,            \* buffer heads: handle -> struct buffer_head or NoBuf
    bh_count,       \* the JFS_DEBUG count of outstanding buffers
    disk,           \* the image: block number -> block contents
    nread,          \* history: io_channel_read_blk calls per buffer handle
    nwrite,         \* history: io_channel_write_blk calls per buffer handle
    asked,          \* history: the (problem, superblock) pairs already asked
    last_prompt,    \* history: the last fix_problem call and its answer
    failures,       \* history: the kinds of I/O, allocation or call that failed
    sb0,            \* history: the superblock at entry
    disk0,          \* history: the image at entry
    trail           \* history: external calls made (close, open, recover...)

vars == <<pc, op, ret_to, retval, readonly, sb, super_dirty, journal, recover,
          reset, recover_retval, bhs, bh_count, disk, nread, nwrite, asked,
          last_prompt, failures, sb0, disk0, trail>>

---------------------------------------------------------------------------
(* Error codes.  The numeric values live in ext2_err.h / errno.h; only     *)
(* their being distinct and non-zero matters here.                         *)
EXT2_ET_BAD_INODE_NUM == 11
EXT2_ET_UNSUPP_FEATURE == 12
EXT2_ET_RO_UNSUPP_FEATURE == 13
EXT2_ET_CORRUPT_SUPERBLOCK == 14
EXT2_ET_NO_MEMORY == 15
EXT2_ET_FILE_RO == 16
EXT2_ET_SHORT_READ == 17
EXT2_ET_SHORT_WRITE == 18
EIO == 5

READ == 0
WRITE == 1

(* Sizes and on-disk constants. *)
FsBlockSize == 1024
JFS_MIN_JOURNAL_BLOCKS == 1024
EXT2_FIRST_INODE == 11
JFS_SUPERBLOCK_V1 == 1
JFS_SUPERBLOCK_V2 == 2
JFS_KNOWN_INCOMPAT_FEATURES == 1
JFS_KNOWN_ROCOMPAT_FEATURES == 0

(* Bound of the model: physical I/O calls followed per buffer (SpecBuf). *)
MaxIO == 2

Blocks == 1..2
BufIds == 1..2
(* The physical block bmap gives for logical block 0 of the journal inode. *)
JBlk == 1
NoBuf == [null |-> TRUE]
NoJournal == [null |-> TRUE]

---------------------------------------------------------------------------
(* Byte order.  An on-disk 32-bit field is its four bytes, most            *)
(* significant first; htonl gives those bytes for a host integer and       *)
(* ntohl reads them back.                                                  *)
htonl(x) ==
    << (x \div 16777216) % 256, (x \div 65536) % 256, (x \div 256) % 256, x % 256 >>

ntohl(b) ==
    b[1] * 16777216 + b[2] * 65536 + b[3] * 256 + b[4]

Zero32 == <<0, 0, 0, 0>>

(* htonl(JFS_MAGIC_NUMBER), JFS_MAGIC_NUMBER = 0xC03B3998 *)
JFS_MAGIC_BE == <<192, 59, 57, 152>>

(* A block viewed as journal_superblock_t. *)
ZeroBlock ==
    [h_magic |-> Zero32, h_blocktype |-> Zero32, s_blocksize |-> Zero32,
     s_maxlen |-> Zero32, s_first |-> Zero32, s_sequence |-> Zero32,
     s_start |-> Zero32, s_feature_incompat |-> Zero32,
     s_feature_ro_compat |-> Zero32]

---------------------------------------------------------------------------
(* The block buffer layer.  These operators work on the I/O state          *)
(* st = [bhs, disk, nread, nwrite].                                        *)

(* getblk: a fresh (zeroed) buffer head for blocknr; no I/O. *)
getblk(blocknr, blocksize) ==
    [b_uptodate |-> FALSE, b_dirty |-> FALSE, b_err |-> 0,
     b_blocknr |-> blocknr, b_size |-> blocksize, b_data |-> ZeroBlock]

(* Mutant of ll_rw_block_one: the read is made whether or not the buffer   *)
(* is uptodate.                                                            *)
ll_rw_block_one_rereads(rw, id, io, st) ==
    LET bh == st.bhs[id] IN
    IF rw = READ THEN
        IF io # 0 THEN
            [st EXCEPT !.bhs[id].b_err = io,
                       !.nread[id] = @ + 1]
        ELSE
            [st EXCEPT !.bhs[id].b_data = st.disk[bh.b_blocknr],
                       !.bhs[id].b_uptodate = TRUE,
                       !.nread[id] = @ + 1]
    ELSE IF rw = WRITE /\ bh.b_dirty THEN
        IF io # 0 THEN
            [st EXCEPT !.bhs[id].b_err = io,
                       !.nwrite[id] = @ + 1]
        ELSE
            [st EXCEPT !.disk[bh.b_blocknr] = bh.b_data,
                       !.bhs[id].b_dirty = FALSE,
                       !.bhs[id].b_uptodate = TRUE,
                       !.nwrite[id] = @ + 1]
    ELSE st

(* One iteration of the loop of ll_rw_block, on buffer handle id; io is    *)
(* the value the io_channel call returns when the iteration makes one.     *)
ll_rw_block_one(rw, id, io, st) ==
    LET bh == st.bhs[id] IN
    IF rw = READ /\ ~bh.b_uptodate THEN
        IF io # 0 THEN
            [st EXCEPT !.bhs[id].b_err = io,
                       !.nread[id] = @ + 1]
        ELSE
            [st EXCEPT !.bhs[id].b_data = st.disk[bh.b_blocknr],
                       !.bhs[id].b_uptodate = TRUE,
                       !.nread[id] = @ + 1]
    ELSE IF rw = WRITE /\ bh.b_dirty THEN
        IF io # 0 THEN
            [st EXCEPT !.bhs[id].b_err = io,
                       !.nwrite[id] = @ + 1]
        ELSE
            [st EXCEPT !.disk[bh.b_blocknr] = bh.b_data,
                       !.bhs[id].b_dirty = FALSE,
                       !.bhs[id].b_uptodate = TRUE,
                       !.nwrite[id] = @ + 1]
    ELSE st

(* Mutant of ll_rw_block: the loop ends at the first buffer whose I/O      *)
(* fails.                                                                  *)
RECURSIVE ll_rw_block_stops_at_error(_, _, _, _)
ll_rw_block_stops_at_error(rw, ids, ios, st) ==
    IF ids = <<>> THEN st
    ELSE LET bh == st.bhs[Head(ids)]
             issued == \/ rw = READ /\ ~bh.b_uptodate
                       \/ rw = WRITE /\ bh.b_dirty
             one == ll_rw_block_one(rw, Head(ids), Head(ios), st)
         IN IF issued /\ Head(ios) # 0 THEN one
            ELSE ll_rw_block_stops_at_error(rw, Tail(ids), Tail(ios), one)

(* ll_rw_block(rw, nr, bhp): bhp is the sequence ids, ios[i] the outcome   *)
(* of the i-th buffer's I/O.                                               *)
RECURSIVE ll_rw_block(_, _, _, _)
ll_rw_block(rw, ids, ios, st) ==
    IF ids = <<>> THEN st
    ELSE ll_rw_block(rw, Tail(ids), Tail(ios),
                     ll_rw_block_one(rw, Head(ids), Head(ios), st))

(* mark_buffer_dirty: b_dirty = dummy | 1 *)
mark_buffer_dirty(id, st) ==
    [st EXCEPT !.bhs[id].b_dirty = TRUE]

(* brelse: write back when dirty, then free the buffer head. *)
brelse(id, io, st) ==
    LET w == IF st.bhs[id].b_dirty THEN ll_rw_block(WRITE, <<id>>, <<io>>, st)
             ELSE st
    IN [w EXCEPT !.bhs[id] = NoBuf]

buffer_uptodate(id, st) ==
    st.bhs[id].b_uptodate

(* wait_on_buffer: read when not uptodate. *)
wait_on_buffer(id, io, st) ==
    IF ~st.bhs[id].b_uptodate THEN ll_rw_block(READ, <<id>>, <<io>>, st)
    ELSE st

IoState == [bhs |-> bhs, disk |-> disk, nread |-> nread, nwrite |-> nwrite]

(* The variables of the I/O state take the values of st. *)
SetIo(st) ==
    /\ bhs' = st.bhs
    /\ disk' = st.disk
    /\ nread' = st.nread
    /\ nwrite' = st.nwrite

(* The outcomes of one io_channel_read_blk / io_channel_write_blk call. *)
ReadOutcomes == {0, EXT2_ET_SHORT_READ}
WriteOutcomes == {0, EXT2_ET_SHORT_WRITE}

---------------------------------------------------------------------------
(* The filesystem superblock fields the driver reads and sets.             *)
(*   has_journal     s_feature_compat & EXT3_FEATURE_COMPAT_HAS_JOURNAL    *)
(*   needs_recovery  s_feature_incompat & EXT3_FEATURE_INCOMPAT_RECOVER    *)
(*   valid_fs        s_state & EXT2_VALID_FS                               *)
(*   s_journal_uuid  0 when uuid_is_null                                   *)
SuperBlocks ==
    [has_journal : BOOLEAN, needs_recovery : BOOLEAN, valid_fs : BOOLEAN,
     s_journal_inum : {0, 8, 12}, s_journal_dev : {0, 1},
     s_journal_uuid : {0, 1}]

(* The journal superblocks an image may hold at the journal's block 0:     *)
(* every type, block size, length and start with the magic and no feature  *)
(* bits; the feature bits under every type and block size; a block         *)
(* without the magic.                                                      *)
JournalSuperBlocks ==
    [h_magic : {JFS_MAGIC_BE},
     h_blocktype : {htonl(JFS_SUPERBLOCK_V1), htonl(JFS_SUPERBLOCK_V2), htonl(9)},
     s_blocksize : {htonl(FsBlockSize), htonl(4096)},
     s_maxlen : {htonl(1024), htonl(1025), htonl(1026)},
     s_first : {htonl(1)},
     s_sequence : {htonl(7)},
     s_start : {Zero32, htonl(42)},
     s_feature_incompat : {Zero32},
     s_feature_ro_compat : {Zero32}]
    \cup
    [h_magic : {JFS_MAGIC_BE},
     h_blocktype : {htonl(JFS_SUPERBLOCK_V1), htonl(JFS_SUPERBLOCK_V2)},
     s_blocksize : {htonl(FsBlockSize), htonl(4096)},
     s_maxlen : {htonl(1025)},
     s_first : {htonl(1)},
     s_sequence : {htonl(7)},
     s_start : {htonl(42)},
     s_feature_incompat : {Zero32, htonl(1), htonl(2)},
     s_feature_ro_compat : {Zero32, htonl(1)}]
    \cup
    [h_magic : {Zero32},
     h_blocktype : {htonl(JFS_SUPERBLOCK_V2), htonl(9)},
     s_blocksize : {htonl(FsBlockSize)},
     s_maxlen : {htonl(1025)},
     s_first : {htonl(1)},
     s_sequence : {htonl(7)},
     s_start : {Zero32, htonl(42)},
     s_feature_incompat : {Zero32},
     s_feature_ro_compat : {Zero32}]

(* The records ext2fs_read_inode may return, with bmap(inode, 0). *)
Inodes ==
    [i_links_count : {0, 1}, is_reg : BOOLEAN,
     i_size : {512 * FsBlockSize, 1025 * FsBlockSize}, bmap0 : {0, JBlk}]

(* fix_problem(ctx, code, pctx) was called on superblock sb and answered a. *)
fix_problem(code, a) ==
    /\ asked' = asked \cup {<<code, sb>>}
    /\ last_prompt' = [code |-> code, answer |-> a]

NoPrompt == UNCHANGED <<asked, last_prompt>>

(* Mutant of e2fsck_clear_recover: EXT2_VALID_FS is never cleared. *)
clear_recover_keeps_valid(s, error) ==
    [s EXCEPT !.needs_recovery = FALSE]

(* Mutant of e2fsck_clear_recover: EXT2_VALID_FS is always cleared. *)
clear_recover_always_invalid(s, error) ==
    [s EXCEPT !.needs_recovery = FALSE, !.valid_fs = FALSE]

(* e2fsck_clear_recover, on the superblock s. *)
e2fsck_clear_recover(s, error) ==
    [s EXCEPT !.needs_recovery = FALSE,
              !.valid_fs = IF error THEN FALSE ELSE @]

Init ==
    /\ pc = "idle"
    /\ op = "none"
    /\ ret_to = "none"
    /\ retval = 0
    /\ readonly \in BOOLEAN
    /\ sb \in SuperBlocks
    /\ super_dirty = FALSE
    /\ journal = NoJournal
    /\ recover = FALSE
    /\ reset = FALSE
    /\ recover_retval = 0
    /\ bhs = [i \in BufIds |-> NoBuf]
    /\ bh_count = 0
    /\ disk \in {[b \in Blocks |-> IF b = JBlk THEN j ELSE ZeroBlock] :
                    j \in JournalSuperBlocks}
    /\ nread = [i \in BufIds |-> 0]
    /\ nwrite = [i \in BufIds |-> 0]
    /\ asked = {}
    /\ last_prompt = [code |-> "none", answer |-> FALSE]
    /\ failures = {}
    /\ sb0 = sb
    /\ disk0 = disk
    /\ trail = <<>>

(* Variable groups left alone by most steps. *)
frameVars == <<readonly, sb0, disk0>>
ioVars == <<bhs, bh_count, disk, nread, nwrite>>
runVars == <<recover_retval, trail>>

---------------------------------------------------------------------------
(* Mutant of e2fsck_check_ext3_journal: no early return at lines 485-488.  *)
check_ext3_journal_no_early_return ==
    /\ pc = "idle"
    /\ op' = "check"
    /\ recover' = sb.needs_recovery
    /\ reset' = FALSE
    /\ retval' = 0
    /\ pc' = "get_journal"
    /\ NoPrompt
    /\ UNCHANGED <<ret_to, sb, super_dirty, journal, failures>>
    /\ UNCHANGED <<frameVars, ioVars, runVars>>

(* e2fsck_check_ext3_journal, lines 474-494: entry and the early return.   *)
e2fsck_check_ext3_journal ==
    /\ pc = "idle"
    /\ op' = "check"
    /\ recover' = sb.needs_recovery
    /\ reset' = FALSE
    /\ retval' = 0
    /\ pc' = IF /\ ~sb.has_journal
                /\ ~sb.needs_recovery
                /\ sb.s_journal_inum = 0
                /\ sb.s_journal_dev = 0
                /\ sb.s_journal_uuid = 0
             THEN "done" ELSE "get_journal"
    /\ NoPrompt
    /\ UNCHANGED <<ret_to, sb, super_dirty, journal, failures>>
    /\ UNCHANGED <<frameVars, ioVars, runVars>>

(* e2fsck_run_ext3_journal, lines 692-705: entry and the read-only refusal. *)
e2fsck_run_ext3_journal ==
    /\ pc = "idle"
    /\ op' = "run"
    /\ IF readonly
       THEN pc' = "done" /\ retval' = EXT2_ET_FILE_RO
       ELSE pc' = "get_journal" /\ retval' = 0
    /\ NoPrompt
    /\ UNCHANGED <<ret_to, sb, super_dirty, journal, recover, reset, failures>>
    /\ UNCHANGED <<frameVars, ioVars, runVars>>

(* e2fsck_get_journal returns r to its caller. *)
get_journal_return(r) ==
    /\ retval' = r
    /\ pc' = IF op = "check" THEN "chk_got_journal" ELSE "rec_got_journal"

(* Mutant of get_journal_field: a declined question is asked again. *)
get_journal_field_reasks(here, isset, code, cleared, next) ==
    /\ pc = here
    /\ IF isset
       THEN \E a \in BOOLEAN :
              /\ fix_problem(code, a)
              /\ IF a
                 THEN /\ sb' = [cleared EXCEPT !.valid_fs = FALSE]
                      /\ super_dirty' = TRUE
                      /\ pc' = next
                      /\ retval' = retval
                 ELSE /\ pc' = here
                      /\ UNCHANGED <<sb, super_dirty, retval>>
       ELSE /\ NoPrompt
            /\ pc' = next
            /\ UNCHANGED <<sb, super_dirty, retval>>
    /\ UNCHANGED <<op, ret_to, journal, recover, reset, failures>>
    /\ UNCHANGED <<frameVars, ioVars, runVars>>

(* Mutant of get_journal_field: a declined question still clears           *)
(* EXT2_VALID_FS and marks the superblock dirty.                           *)
get_journal_field_declined_dirties(here, isset, code, cleared, next) ==
    /\ pc = here
    /\ IF isset
       THEN \E a \in BOOLEAN :
              /\ fix_problem(code, a)
              /\ super_dirty' = TRUE
              /\ IF a
                 THEN /\ sb' = [cleared EXCEPT !.valid_fs = FALSE]
                      /\ pc' = next
                      /\ retval' = retval
                 ELSE /\ get_journal_return(EXT2_ET_UNSUPP_FEATURE)
                      /\ sb' = [sb EXCEPT !.valid_fs = FALSE]
       ELSE /\ NoPrompt
            /\ pc' = next
            /\ UNCHANGED <<sb, super_dirty, retval>>
    /\ UNCHANGED <<op, ret_to, journal, recover, reset, failures>>
    /\ UNCHANGED <<frameVars, ioVars, runVars>>

(* Mutant of get_journal_field: an accepted question clears the field and  *)
(* EXT2_VALID_FS without marking the superblock dirty.                     *)
get_journal_field_not_dirtied(here, isset, code, cleared, next) ==
    /\ pc = here
    /\ IF isset
       THEN \E a \in BOOLEAN :
              /\ fix_problem(code, a)
              /\ super_dirty' = super_dirty
              /\ IF a
                 THEN /\ sb' = [cleared EXCEPT !.valid_fs = FALSE]
                      /\ pc' = next
                      /\ retval' = retval
                 ELSE /\ get_journal_return(EXT2_ET_UNSUPP_FEATURE)
                      /\ UNCHANGED sb
       ELSE /\ NoPrompt
            /\ pc' = next
            /\ UNCHANGED <<sb, super_dirty, retval>>
    /\ UNCHANGED <<op, ret_to, journal, recover, reset, failures>>
    /\ UNCHANGED <<frameVars, ioVars, runVars>>

(* One "unsupported field" question of e2fsck_get_journal: when the field  *)
(* is set, ask code; declined returns EXT2_ET_UNSUPP_FEATURE, accepted     *)
(* clears the field and EXT2_VALID_FS and marks the superblock dirty.      *)
get_journal_field(here, isset, code, cleared, next) ==
    /\ pc = here
    /\ IF isset
       THEN \E a \in BOOLEAN :
              /\ fix_problem(code, a)
              /\ IF a
                 THEN /\ sb' = [cleared EXCEPT !.valid_fs = FALSE]
                      /\ super_dirty' = TRUE
                      /\ pc' = next
                      /\ retval' = retval
                 ELSE /\ get_journal_return(EXT2_ET_UNSUPP_FEATURE)
                      /\ UNCHANGED <<sb, super_dirty>>
       ELSE /\ NoPrompt
            /\ pc' = next
            /\ UNCHANGED <<sb, super_dirty, retval>>
    /\ UNCHANGED <<op, ret_to, journal, recover, reset, failures>>
    /\ UNCHANGED <<frameVars, ioVars, runVars>>

(* e2fsck_get_journal, line 217: the has-journal branch is entered or not. *)
get_journal_enter ==
    /\ pc = "get_journal"
    /\ pc' = IF sb.has_journal THEN "gj_unsupp_dev" ELSE "gj_bad_dev"
    /\ NoPrompt
    /\ UNCHANGED <<op, ret_to, retval, sb, super_dirty, journal, recover, reset,
                   failures>>
    /\ UNCHANGED <<frameVars, ioVars, runVars>>

(* lines 218-226 *)
get_journal_unsupp_dev ==
    get_journal_field("gj_unsupp_dev", sb.s_journal_dev # 0,
                      "PR_0_JOURNAL_UNSUPP_DEV",
                      [sb EXCEPT !.s_journal_dev = 0], "gj_unsupp_uuid")

(* lines 227-236 *)
get_journal_unsupp_uuid ==
    get_journal_field("gj_unsupp_uuid", sb.s_journal_uuid # 0,
                      "PR_0_JOURNAL_UNSUPP_UUID",
                      [sb EXCEPT !.s_journal_uuid = 0], "gj_inum")

(* lines 237-238 *)
get_journal_inum ==
    /\ pc = "gj_inum"
    /\ IF sb.s_journal_inum = 0
       THEN get_journal_return(EXT2_ET_BAD_INODE_NUM)
       ELSE pc' = "gj_bad_dev" /\ retval' = retval
    /\ NoPrompt
    /\ UNCHANGED <<op, ret_to, sb, super_dirty, journal, recover, reset, failures>>
    /\ UNCHANGED <<frameVars, ioVars, runVars>>

(* lines 241-248 *)
get_journal_bad_dev ==
    get_journal_field("gj_bad_dev", sb.s_journal_dev # 0,
                      "PR_0_JOURNAL_BAD_DEV",
                      [sb EXCEPT !.s_journal_dev = 0], "gj_bad_uuid")

(* lines 249-257 *)
get_journal_bad_uuid ==
    get_journal_field("gj_bad_uuid", sb.s_journal_uuid # 0,
                      "PR_0_JOURNAL_BAD_UUID",
                      [sb EXCEPT !.s_journal_uuid = 0], "init_inode")

(* ext2fs_read_inode(fs, ino): inode 0 is never readable. *)
read_inode_outcomes(ino) ==
    IF ino = 0 THEN {EXT2_ET_BAD_INODE_NUM}
    ELSE {0, EXT2_ET_SHORT_READ, EXT2_ET_BAD_INODE_NUM}

(* The journal inode fails the checks of lines 183-186. *)
bad_journal_inode(inode, j_maxlen) ==
    \/ inode.i_links_count = 0
    \/ ~inode.is_reg
    \/ j_maxlen < JFS_MIN_JOURNAL_BLOCKS
    \/ inode.bmap0 = 0

(* The journal_t of lines 161, 178-181, 196-197; the allocation is zeroed. *)
new_journal(ino, j_maxlen, bh) ==
    [j_inode |-> ino, j_blocksize |-> FsBlockSize, j_maxlen |-> j_maxlen,
     j_sb_buffer |-> bh, j_format_version |-> 0, j_tail_sequence |-> 0,
     j_transaction_sequence |-> 0, j_tail |-> 0, j_first |-> 0, j_last |-> 0]

(* e2fsck_journal_init_inode, lines 150-207, as a function of what its     *)
(* callees give: mem names the allocation that fails, if any; rd is what   *)
(* ext2fs_read_inode returns and inode the record it reads.  Gives the     *)
(* return value, the journal length and block computed, whether the inode  *)
(* was read, and what failed.                                              *)
journal_init_inode(mem, rd, inode) ==
    LET j_maxlen == inode.i_size \div FsBlockSize
        read == mem \notin {"journal", "inode"}
        r == IF mem \in {"journal", "inode"} THEN EXT2_ET_NO_MEMORY
             ELSE IF rd # 0 THEN rd
             ELSE IF bad_journal_inode(inode, j_maxlen)
                  THEN EXT2_ET_BAD_INODE_NUM
             ELSE IF mem = "bh" THEN EXT2_ET_NO_MEMORY
             ELSE 0
    IN [ret |-> r,
        j_maxlen |-> IF r = 0 THEN j_maxlen ELSE 0,
        start |-> IF r = 0 THEN inode.bmap0 ELSE 0,
        read |-> read,
        failed |-> (IF mem # "ok" THEN {"alloc"} ELSE {})
                   \cup (IF read /\ rd # 0 THEN {"read_inode"} ELSE {})]

(* e2fsck_journal_init_inode, lines 150-207 (from line 259). *)
e2fsck_journal_init_inode ==
    /\ pc = "init_inode"
    /\ \E o \in {journal_init_inode(mem, rd, inode) :
                    mem \in {"ok", "journal", "inode", "bh"},
                    rd \in read_inode_outcomes(sb.s_journal_inum),
                    inode \in Inodes} :
         LET bh == CHOOSE i \in BufIds : bhs[i] = NoBuf
         IN /\ get_journal_return(o.ret)
            /\ trail' = IF o.read THEN Append(trail, "read_inode") ELSE trail
            /\ failures' = failures \cup o.failed
            /\ IF o.ret = 0
               THEN /\ journal' = new_journal(sb.s_journal_inum, o.j_maxlen, bh)
                    /\ bhs' = [bhs EXCEPT ![bh] = getblk(o.start, FsBlockSize)]
                    /\ bh_count' = bh_count + 1
                    /\ nread' = [nread EXCEPT ![bh] = 0]
                    /\ nwrite' = [nwrite EXCEPT ![bh] = 0]
               ELSE /\ journal' = NoJournal
                    /\ UNCHANGED <<bhs, bh_count, nread, nwrite>>
    /\ NoPrompt
    /\ UNCHANGED <<op, ret_to, sb, super_dirty, recover, reset, disk,
                   recover_retval>>
    /\ UNCHANGED frameVars

---------------------------------------------------------------------------
(* e2fsck_check_ext3_journal, lines 496-501: after e2fsck_get_journal. *)
check_got_journal ==
    /\ pc = "chk_got_journal"
    /\ IF retval # 0
       THEN IF retval = EXT2_ET_BAD_INODE_NUM
            THEN pc' = "fix_bad_inode" /\ ret_to' = "check"
            ELSE pc' = "done" /\ ret_to' = ret_to
       ELSE pc' = "load" /\ ret_to' = ret_to
    /\ NoPrompt
    /\ UNCHANGED <<op, retval, sb, super_dirty, journal, recover, reset, failures>>
    /\ UNCHANGED <<frameVars, ioVars, runVars>>

(* The bits of v outside mask: v & ~mask. *)
RECURSIVE AndNot(_, _)
AndNot(v, mask) ==
    IF v = 0 THEN 0
    ELSE (IF v % 2 = 1 /\ mask % 2 = 0 THEN 1 ELSE 0)
         + 2 * AndNot(v \div 2, mask \div 2)

(* JFS_HAS_INCOMPAT_FEATURE(journal, ~JFS_KNOWN_INCOMPAT_FEATURES) *)
JFS_HAS_INCOMPAT_FEATURE(jsb) ==
    AndNot(ntohl(jsb.s_feature_incompat), JFS_KNOWN_INCOMPAT_FEATURES) # 0

(* JFS_HAS_RO_COMPAT_FEATURE(journal, ~JFS_KNOWN_ROCOMPAT_FEATURES) *)
JFS_HAS_RO_COMPAT_FEATURE(jsb) ==
    AndNot(ntohl(jsb.s_feature_ro_compat), JFS_KNOWN_ROCOMPAT_FEATURES) # 0

(* Mutant of journal_load_super: the block size and the length are checked *)
(* before the format.                                                      *)
journal_load_super_repairs_first(j, jsb) ==
    LET bt == ntohl(jsb.h_blocktype)
        jv == IF bt = JFS_SUPERBLOCK_V1
              THEN [j EXCEPT !.j_format_version = 1]
              ELSE [j EXCEPT !.j_format_version = 2]
        capped == IF ntohl(jsb.s_maxlen) < jv.j_maxlen
                  THEN [jv EXCEPT !.j_maxlen = ntohl(jsb.s_maxlen)]
                  ELSE jv
    IN IF jsb.s_blocksize # htonl(jv.j_blocksize)
       THEN [ret |-> EXT2_ET_CORRUPT_SUPERBLOCK, journal |-> jv]
       ELSE IF ntohl(jsb.s_maxlen) > jv.j_maxlen
       THEN [ret |-> EXT2_ET_CORRUPT_SUPERBLOCK, journal |-> jv]
       ELSE IF bt # JFS_SUPERBLOCK_V1 /\ bt # JFS_SUPERBLOCK_V2
       THEN [ret |-> EXT2_ET_UNSUPP_FEATURE, journal |-> j]
       ELSE IF JFS_HAS_INCOMPAT_FEATURE(jsb)
       THEN [ret |-> EXT2_ET_UNSUPP_FEATURE, journal |-> jv]
       ELSE IF JFS_HAS_RO_COMPAT_FEATURE(jsb)
       THEN [ret |-> EXT2_ET_RO_UNSUPP_FEATURE, journal |-> jv]
       ELSE [ret |-> 0,
             journal |-> [capped EXCEPT
                 !.j_tail_sequence = ntohl(jsb.s_sequence),
                 !.j_transaction_sequence = ntohl(jsb.s_sequence),
                 !.j_tail = ntohl(jsb.s_start),
                 !.j_first = ntohl(jsb.s_first),
                 !.j_last = ntohl(jsb.s_maxlen)]]

(* e2fsck_journal_load, lines 335-393: the superblock jsb has the magic;   *)
(* gives the return value and the journal_t as the function leaves it.     *)
journal_load_super(j, jsb) ==
    LET bt == ntohl(jsb.h_blocktype)
        jv == IF bt = JFS_SUPERBLOCK_V1
              THEN [j EXCEPT !.j_format_version = 1]
              ELSE [j EXCEPT !.j_format_version = 2]
        capped == IF ntohl(jsb.s_maxlen) < jv.j_maxlen
                  THEN [jv EXCEPT !.j_maxlen = ntohl(jsb.s_maxlen)]
                  ELSE jv
    IN IF bt # JFS_SUPERBLOCK_V1 /\ bt # JFS_SUPERBLOCK_V2
       THEN [ret |-> EXT2_ET_UNSUPP_FEATURE, journal |-> j]
       ELSE IF JFS_HAS_INCOMPAT_FEATURE(jsb)
       THEN [ret |-> EXT2_ET_UNSUPP_FEATURE, journal |-> jv]
       ELSE IF JFS_HAS_RO_COMPAT_FEATURE(jsb)
       THEN [ret |-> EXT2_ET_RO_UNSUPP_FEATURE, journal |-> jv]
       ELSE IF jsb.s_blocksize # htonl(jv.j_blocksize)
       THEN [ret |-> EXT2_ET_CORRUPT_SUPERBLOCK, journal |-> jv]
       ELSE IF ntohl(jsb.s_maxlen) > jv.j_maxlen
       THEN [ret |-> EXT2_ET_CORRUPT_SUPERBLOCK, journal |-> jv]
       ELSE [ret |-> 0,
             journal |-> [capped EXCEPT
                 !.j_tail_sequence = ntohl(jsb.s_sequence),
                 !.j_transaction_sequence = ntohl(jsb.s_sequence),
                 !.j_tail = ntohl(jsb.s_start),
                 !.j_first = ntohl(jsb.s_first),
                 !.j_last = ntohl(jsb.s_maxlen)]]

(* e2fsck_journal_load returns r to its caller. *)
journal_load_return(r) ==
    /\ retval' = r
    /\ pc' = IF op = "check" THEN "chk_loaded" ELSE "rec_loaded"

(* e2fsck_journal_load, lines 314-394; io is the outcome of the read. *)
e2fsck_journal_load ==
    /\ pc = "load"
    /\ \E io \in ReadOutcomes :
         LET st == ll_rw_block(READ, <<journal.j_sb_buffer>>, <<io>>, IoState)
             jbh == st.bhs[journal.j_sb_buffer]
             jsb == jbh.b_data
             ld == journal_load_super(journal, jsb)
         IN /\ SetIo(st)
            /\ failures' = failures \cup (IF jbh.b_err # 0 THEN {"read"} ELSE {})
            /\ IF jbh.b_err # 0
               THEN /\ journal_load_return(jbh.b_err)
                    /\ UNCHANGED <<journal, ret_to>>
               ELSE IF jsb.h_magic # JFS_MAGIC_BE
               THEN /\ pc' = "fix_bad_inode"
                    /\ ret_to' = "load"
                    /\ UNCHANGED <<journal, retval>>
               ELSE /\ journal_load_return(ld.ret)
                    /\ journal' = ld.journal
                    /\ ret_to' = ret_to
    /\ NoPrompt
    /\ UNCHANGED <<op, sb, super_dirty, recover, reset, bh_count>>
    /\ UNCHANGED <<frameVars, runVars>>

(* Mutant of journal_fix_bad_inode: an accepted BAD_INODE leaves           *)
(* s_journal_inum as it was.                                               *)
journal_fix_bad_inode_keeps_inum(s, a) ==
    IF s.has_journal \/ s.s_journal_inum # 0
    THEN IF a
         THEN [code |-> "PR_0_JOURNAL_BAD_INODE", ret |-> 0, dirty |-> TRUE,
               sb |-> e2fsck_clear_recover([s EXCEPT !.has_journal = FALSE],
                                           TRUE)]
         ELSE [code |-> "PR_0_JOURNAL_BAD_INODE", ret |-> EXT2_ET_BAD_INODE_NUM,
               dirty |-> FALSE, sb |-> s]
    ELSE IF s.needs_recovery
    THEN IF a
         THEN [code |-> "PR_0_JOURNAL_RECOVER_SET", ret |-> 0, dirty |-> TRUE,
               sb |-> e2fsck_clear_recover(s, TRUE)]
         ELSE [code |-> "PR_0_JOURNAL_RECOVER_SET",
               ret |-> EXT2_ET_UNSUPP_FEATURE, dirty |-> FALSE, sb |-> s]
    ELSE [code |-> "none", ret |-> 0, dirty |-> FALSE, sb |-> s]

(* e2fsck_journal_fix_bad_inode, lines 262-291, on superblock s with the   *)
(* answer a to the question it asks: the question, the return value and    *)
(* the superblock afterwards.                                              *)
journal_fix_bad_inode(s, a) ==
    IF s.has_journal \/ s.s_journal_inum # 0
    THEN IF a
         THEN [code |-> "PR_0_JOURNAL_BAD_INODE", ret |-> 0, dirty |-> TRUE,
               sb |-> e2fsck_clear_recover(
                         [s EXCEPT !.has_journal = FALSE, !.s_journal_inum = 0],
                         TRUE)]
         ELSE [code |-> "PR_0_JOURNAL_BAD_INODE", ret |-> EXT2_ET_BAD_INODE_NUM,
               dirty |-> FALSE, sb |-> s]
    ELSE IF s.needs_recovery
    THEN IF a
         THEN [code |-> "PR_0_JOURNAL_RECOVER_SET", ret |-> 0, dirty |-> TRUE,
               sb |-> e2fsck_clear_recover(s, TRUE)]
         ELSE [code |-> "PR_0_JOURNAL_RECOVER_SET",
               ret |-> EXT2_ET_UNSUPP_FEATURE, dirty |-> FALSE, sb |-> s]
    ELSE [code |-> "none", ret |-> 0, dirty |-> FALSE, sb |-> s]

(* The call of e2fsck_journal_fix_bad_inode and the return to its caller:  *)
(* line 499 (the check returns its value), line 333 (e2fsck_journal_load   *)
(* returns its value) or line 446 (e2fsck_journal_fix_corrupt_super).      *)
e2fsck_journal_fix_bad_inode ==
    /\ pc = "fix_bad_inode"
    /\ \E a \in BOOLEAN :
         LET f == journal_fix_bad_inode(sb, a)
         IN /\ IF f.code # "none" THEN fix_problem(f.code, a)
               ELSE a /\ NoPrompt
            /\ sb' = f.sb
            /\ super_dirty' = (super_dirty \/ f.dirty)
            /\ IF ret_to = "check"
               THEN pc' = "done" /\ retval' = f.ret
               ELSE IF ret_to = "load"
               THEN journal_load_return(f.ret)
               ELSE /\ pc' = "done"
                    /\ retval' = IF f.ret # 0 THEN EXT2_ET_CORRUPT_SUPERBLOCK
                                 ELSE 0
    /\ ret_to' = "none"
    /\ UNCHANGED <<op, journal, recover, reset, failures>>
    /\ UNCHANGED <<frameVars, ioVars, runVars>>

(* e2fsck_journal_fix_unsupported_super, lines 293-312, on superblock s    *)
(* with the answers a to PR_0_JOURNAL_UNSUPP_SUPER and b to the question   *)
(* of e2fsck_journal_fix_bad_inode: the questions asked, the return value  *)
(* and the superblock afterwards.  No function of the file calls it.       *)
journal_fix_unsupported_super(s, a, b) ==
    LET f == journal_fix_bad_inode(s, b)
        first == IF s.has_journal THEN {"PR_0_JOURNAL_UNSUPP_SUPER"} ELSE {}
    IN IF s.has_journal /\ a
       THEN [codes |-> first, ret |-> EXT2_ET_CORRUPT_SUPERBLOCK,
             dirty |-> FALSE, sb |-> s]
       ELSE [codes |-> first \cup ({f.code} \ {"none"}),
             ret |-> IF f.ret # 0 THEN EXT2_ET_UNSUPP_FEATURE ELSE 0,
             dirty |-> f.dirty, sb |-> f.sb]

---------------------------------------------------------------------------
(* e2fsck_check_ext3_journal, lines 503-509: after e2fsck_journal_load. *)
check_loaded ==
    /\ pc = "chk_loaded"
    /\ pc' = IF retval # 0
             THEN IF retval = EXT2_ET_CORRUPT_SUPERBLOCK
                  THEN "fix_corrupt_super" ELSE "done"
             ELSE "no_has_journal"
    /\ NoPrompt
    /\ UNCHANGED <<op, ret_to, retval, sb, super_dirty, journal, recover, reset,
                   failures>>
    /\ UNCHANGED <<frameVars, ioVars, runVars>>

(* The superblock image e2fsck_journal_reset_super builds, lines 405-419. *)
reset_super_image(jsb, blocksize, j_maxlen) ==
    LET keep == /\ jsb.h_magic = JFS_MAGIC_BE
                /\ jsb.h_blocktype = htonl(JFS_SUPERBLOCK_V1)
    IN [ZeroBlock EXCEPT
          !.h_magic = JFS_MAGIC_BE,
          !.h_blocktype = IF keep THEN jsb.h_blocktype
                          ELSE htonl(JFS_SUPERBLOCK_V2),
          !.s_blocksize = htonl(blocksize),
          !.s_maxlen = htonl(j_maxlen),
          !.s_first = htonl(1),
          !.s_sequence = htonl(1)]

(* e2fsck_journal_reset_super, lines 396-426: rewrite the buffer's data,   *)
(* then ll_rw_block(WRITE, 1, &journal->j_sb_buffer).                      *)
e2fsck_journal_reset_super(j, io, st) ==
    LET id == j.j_sb_buffer
        img == reset_super_image(st.bhs[id].b_data, FsBlockSize, j.j_maxlen)
    IN ll_rw_block(WRITE, <<id>>, <<io>>, [st EXCEPT !.bhs[id].b_data = img])

(* e2fsck_journal_fix_corrupt_super, lines 428-450 (from line 506). *)
e2fsck_journal_fix_corrupt_super ==
    /\ pc = "fix_corrupt_super"
    /\ IF sb.has_journal
       THEN \E a \in BOOLEAN, io \in WriteOutcomes :
              /\ fix_problem("PR_0_JOURNAL_BAD_SUPER", a)
              /\ pc' = "done"
              /\ ret_to' = ret_to
              /\ IF a
                 THEN LET st == e2fsck_journal_reset_super(journal, io, IoState)
                      IN /\ SetIo(st)
                         /\ failures' = failures \cup
                              (IF st.nwrite[journal.j_sb_buffer]
                                    # nwrite[journal.j_sb_buffer] /\ io # 0
                               THEN {"write"} ELSE {})
                         /\ journal' = [journal EXCEPT !.j_transaction_sequence = 1]
                         /\ sb' = e2fsck_clear_recover(sb, sb.needs_recovery)
                         /\ super_dirty' = TRUE
                         /\ retval' = 0
                 ELSE /\ retval' = EXT2_ET_CORRUPT_SUPERBLOCK
                      /\ UNCHANGED <<sb, super_dirty, journal, failures>>
                      /\ UNCHANGED <<bhs, disk, nread, nwrite>>
       ELSE /\ pc' = "fix_bad_inode"
            /\ ret_to' = "corrupt"
            /\ NoPrompt
            /\ UNCHANGED <<retval, sb, super_dirty, journal, failures>>
            /\ UNCHANGED <<bhs, disk, nread, nwrite>>
    /\ UNCHANGED <<op, recover, reset, bh_count>>
    /\ UNCHANGED <<frameVars, runVars>>

(* Mutant of clear_journal_fields: a journal on a reserved inode does not  *)
(* force a full check.                                                     *)
clear_journal_fields_recover_only(s, rec) ==
    e2fsck_clear_recover(
      [s EXCEPT !.s_journal_inum = 0, !.s_journal_dev = 0,
                !.s_journal_uuid = 0],
      rec)

(* Lines 528-535: the journal fields are cleared; rec is the local recover. *)
clear_journal_fields(s, rec) ==
    LET force_fsck == rec \/ s.s_journal_inum < EXT2_FIRST_INODE
    IN e2fsck_clear_recover(
         [s EXCEPT !.s_journal_inum = 0, !.s_journal_dev = 0,
                   !.s_journal_uuid = 0],
         force_fsck)

(* e2fsck_check_ext3_journal, lines 516-520 and 536-540: the label         *)
(* no_has_journal and the question PR_0_JOURNAL_HAS_JOURNAL.               *)
check_no_has_journal ==
    /\ pc = "no_has_journal"
    /\ IF ~sb.has_journal
       THEN /\ recover' = sb.needs_recovery
            /\ \E a \in BOOLEAN :
                 /\ fix_problem("PR_0_JOURNAL_HAS_JOURNAL", a)
                 /\ IF a
                    THEN IF sb.needs_recovery
                         THEN /\ pc' = "recover_set"
                              /\ UNCHANGED <<sb, super_dirty>>
                         ELSE /\ pc' = "reset_journal"
                              /\ sb' = clear_journal_fields(sb, sb.needs_recovery)
                              /\ super_dirty' = TRUE
                    ELSE /\ pc' = "reset_journal"
                         /\ IF ~readonly
                            THEN /\ sb' = [sb EXCEPT !.has_journal = TRUE]
                                 /\ super_dirty' = TRUE
                            ELSE UNCHANGED <<sb, super_dirty>>
       ELSE /\ pc' = "reset_journal"
            /\ NoPrompt
            /\ UNCHANGED <<sb, super_dirty, recover>>
    /\ UNCHANGED <<op, ret_to, retval, journal, reset, failures>>
    /\ UNCHANGED <<frameVars, ioVars, runVars>>

(* Mutant of check_recover_set: an accepted RECOVER_SET clears the journal *)
(* fields and then goes back to no_has_journal, as a declined one does.    *)
check_recover_set_loops ==
    /\ pc = "recover_set"
    /\ \E a \in BOOLEAN :
         /\ fix_problem("PR_0_JOURNAL_RECOVER_SET", a)
         /\ pc' = "no_has_journal"
         /\ IF a
            THEN /\ sb' = clear_journal_fields(sb, recover)
                 /\ super_dirty' = TRUE
            ELSE UNCHANGED <<sb, super_dirty>>
    /\ UNCHANGED <<op, ret_to, retval, journal, recover, reset, failures>>
    /\ UNCHANGED <<frameVars, ioVars, runVars>>

(* Lines 521-535: PR_0_JOURNAL_RECOVER_SET after an accepted HAS_JOURNAL;  *)
(* declined goes back to no_has_journal.                                   *)
check_recover_set ==
    /\ pc = "recover_set"
    /\ \E a \in BOOLEAN :
         /\ fix_problem("PR_0_JOURNAL_RECOVER_SET", a)
         /\ IF a
            THEN /\ pc' = "reset_journal"
                 /\ sb' = clear_journal_fields(sb, recover)
                 /\ super_dirty' = TRUE
            ELSE /\ pc' = "no_has_journal"
                 /\ UNCHANGED <<sb, super_dirty>>
    /\ UNCHANGED <<op, ret_to, retval, journal, recover, reset, failures>>
    /\ UNCHANGED <<frameVars, ioVars, runVars>>

(* Mutant of check_reset_journal: an accepted reset leaves EXT2_VALID_FS   *)
(* set.                                                                    *)
check_reset_journal_keeps_valid ==
    /\ pc = "reset_journal"
    /\ pc' = "release"
    /\ IF /\ sb.has_journal
          /\ ~sb.needs_recovery
          /\ bhs[journal.j_sb_buffer].b_data.s_start # Zero32
       THEN \E a \in BOOLEAN :
              /\ fix_problem("PR_0_JOURNAL_RESET_JOURNAL", a)
              /\ IF a
                 THEN /\ reset' = TRUE
                      /\ super_dirty' = TRUE
                      /\ UNCHANGED sb
                 ELSE UNCHANGED <<reset, sb, super_dirty>>
       ELSE /\ NoPrompt
            /\ UNCHANGED <<reset, sb, super_dirty>>
    /\ UNCHANGED <<op, ret_to, retval, journal, recover, failures>>
    /\ UNCHANGED <<frameVars, ioVars, runVars>>

(* Lines 542-561: PR_0_JOURNAL_RESET_JOURNAL. *)
check_reset_journal ==
    /\ pc = "reset_journal"
    /\ pc' = "release"
    /\ IF /\ sb.has_journal
          /\ ~sb.needs_recovery
          /\ bhs[journal.j_sb_buffer].b_data.s_start # Zero32
       THEN \E a \in BOOLEAN :
              /\ fix_problem("PR_0_JOURNAL_RESET_JOURNAL", a)
              /\ IF a
                 THEN /\ reset' = TRUE
                      /\ sb' = [sb EXCEPT !.valid_fs = FALSE]
                      /\ super_dirty' = TRUE
                 ELSE UNCHANGED <<reset, sb, super_dirty>>
       ELSE /\ NoPrompt
            /\ UNCHANGED <<reset, sb, super_dirty>>
    /\ UNCHANGED <<op, ret_to, retval, journal, recover, failures>>
    /\ UNCHANGED <<frameVars, ioVars, runVars>>

(* Mutant of journal_release: s_start is left alone when reset is asked. *)
journal_release_no_reset(ro, j, rst, io, st) ==
    LET id == j.j_sb_buffer
        jsb == st.bhs[id].b_data
        upd == [jsb EXCEPT !.s_sequence = htonl(j.j_transaction_sequence)]
        marked == IF ~ro
                  THEN mark_buffer_dirty(id, [st EXCEPT !.bhs[id].b_data = upd])
                  ELSE st
    IN brelse(id, io, marked)

(* Mutant of journal_release: E2F_OPT_READONLY is not looked at. *)
journal_release_ignores_readonly(ro, j, rst, io, st) ==
    LET id == j.j_sb_buffer
        jsb == st.bhs[id].b_data
        upd == [jsb EXCEPT !.s_sequence = htonl(j.j_transaction_sequence),
                           !.s_start = IF rst THEN Zero32 ELSE @]
    IN brelse(id, io, mark_buffer_dirty(id, [st EXCEPT !.bhs[id].b_data = upd]))

(* e2fsck_journal_release(ctx, journal, reset) on the I/O state st, lines  *)
(* 452-464; io is the outcome of the write brelse makes.                   *)
journal_release(ro, j, rst, io, st) ==
    LET id == j.j_sb_buffer
        jsb == st.bhs[id].b_data
        upd == [jsb EXCEPT !.s_sequence = htonl(j.j_transaction_sequence),
                           !.s_start = IF rst THEN Zero32 ELSE @]
        marked == IF ~ro
                  THEN mark_buffer_dirty(id, [st EXCEPT !.bhs[id].b_data = upd])
                  ELSE st
    IN brelse(id, io, marked)

(* e2fsck_journal_release, lines 452-468: from line 563 with the local     *)
(* reset, and from line 585 with reset = 1.                                *)
e2fsck_journal_release ==
    /\ pc = "release"
    /\ \E io \in WriteOutcomes :
         LET rst == IF op = "run" THEN TRUE ELSE reset
             id == journal.j_sb_buffer
             st == journal_release(readonly, journal, rst, io, IoState)
         IN /\ SetIo(st)
            /\ failures' = failures \cup
                 (IF st.nwrite[id] # nwrite[id] /\ io # 0 THEN {"write"} ELSE {})
    /\ bh_count' = bh_count - 1
    /\ journal' = NoJournal
    /\ IF op = "check"
       THEN pc' = "done" /\ UNCHANGED recover_retval
       ELSE pc' = "close_reopen" /\ recover_retval' = retval
    /\ NoPrompt
    /\ UNCHANGED <<op, ret_to, retval, sb, super_dirty, recover, reset, trail>>
    /\ UNCHANGED frameVars

---------------------------------------------------------------------------
(* recover_ext3_journal returns r to e2fsck_run_ext3_journal (line 705). *)
recover_return(r) ==
    /\ recover_retval' = r
    /\ pc' = "close_reopen"

(* recover_ext3_journal, lines 572-574. *)
recover_got_journal ==
    /\ pc = "rec_got_journal"
    /\ IF retval # 0 THEN recover_return(retval)
       ELSE pc' = "load" /\ UNCHANGED recover_retval
    /\ NoPrompt
    /\ UNCHANGED <<op, ret_to, retval, sb, super_dirty, journal, recover, reset,
                   failures, trail>>
    /\ UNCHANGED <<frameVars, ioVars>>

(* recover_ext3_journal, lines 576-578. *)
recover_loaded ==
    /\ pc = "rec_loaded"
    /\ IF retval # 0 THEN recover_return(retval)
       ELSE pc' = "init_revoke" /\ UNCHANGED recover_retval
    /\ NoPrompt
    /\ UNCHANGED <<op, ret_to, retval, sb, super_dirty, journal, recover, reset,
                   failures, trail>>
    /\ UNCHANGED <<frameVars, ioVars>>

(* recover_ext3_journal, lines 580-582: journal_init_revoke(journal, 1024) *)
(* returns r.                                                              *)
recover_init_revoke ==
    /\ pc = "init_revoke"
    /\ \E r \in {0, EXT2_ET_NO_MEMORY} :
         /\ retval' = r
         /\ failures' = failures \cup (IF r # 0 THEN {"init_revoke"} ELSE {})
         /\ IF r # 0 THEN recover_return(r)
            ELSE pc' = "recover" /\ UNCHANGED recover_retval
    /\ trail' = Append(trail, "init_revoke")
    /\ NoPrompt
    /\ UNCHANGED <<op, ret_to, sb, super_dirty, journal, recover, reset>>
    /\ UNCHANGED <<frameVars, ioVars>>

(* recover_ext3_journal, line 584: retval = -journal_recover(journal).     *)
(* The engine returns err and leaves the sequence number after the last    *)
(* of the n transactions it replayed in j_transaction_sequence.            *)
recover_journal_recover ==
    /\ pc = "recover"
    /\ \E err \in {0, -EIO}, n \in {1, 4} :
         /\ retval' = -err
         /\ failures' = failures \cup (IF err # 0 THEN {"recover"} ELSE {})
         /\ journal' = [journal EXCEPT
                          !.j_transaction_sequence = journal.j_tail_sequence + n]
    /\ pc' = "release"
    /\ trail' = Append(trail, "recover")
    /\ NoPrompt
    /\ UNCHANGED <<op, ret_to, sb, super_dirty, recover, reset, recover_retval>>
    /\ UNCHANGED <<frameVars, ioVars>>

(* e2fsck_run_ext3_journal, lines 711-722: ext2fs_close, then ext2fs_open, *)
(* which returns r and, on success, a superblock read back from the image  *)
(* that journal replay may have rewritten; a failure is fatal_error.       *)
run_close_reopen ==
    /\ pc = "close_reopen"
    /\ trail' = trail \o <<"close", "open">>
    /\ \E r \in {0, EXT2_ET_SHORT_READ} :
         IF r # 0
         THEN /\ pc' = "fatal"
              /\ failures' = failures \cup {"open"}
              /\ UNCHANGED <<sb, super_dirty>>
         ELSE /\ pc' = "run_clear"
              /\ failures' = failures
              /\ super_dirty' = FALSE
              /\ \E n \in BOOLEAN, v \in BOOLEAN :
                   sb' = [sb EXCEPT !.needs_recovery = n, !.valid_fs = v]
    /\ NoPrompt
    /\ UNCHANGED <<op, ret_to, retval, journal, recover, reset, recover_retval>>
    /\ UNCHANGED <<frameVars, ioVars>>

(* e2fsck_run_ext3_journal, lines 724-726. *)
run_clear_recover ==
    /\ pc = "run_clear"
    /\ sb' = e2fsck_clear_recover(sb, recover_retval # 0)
    /\ super_dirty' = TRUE
    /\ retval' = recover_retval
    /\ pc' = "done"
    /\ NoPrompt
    /\ UNCHANGED <<op, ret_to, journal, recover, reset, failures>>
    /\ UNCHANGED <<frameVars, ioVars, runVars>>

---------------------------------------------------------------------------
Next ==
    \/ e2fsck_check_ext3_journal
    \/ e2fsck_run_ext3_journal
    \/ get_journal_enter
    \/ get_journal_unsupp_dev
    \/ get_journal_unsupp_uuid
    \/ get_journal_inum
    \/ get_journal_bad_dev
    \/ get_journal_bad_uuid
    \/ e2fsck_journal_init_inode
    \/ check_got_journal
    \/ e2fsck_journal_load
    \/ e2fsck_journal_fix_bad_inode
    \/ check_loaded
    \/ e2fsck_journal_fix_corrupt_super
    \/ check_no_has_journal
    \/ check_recover_set
    \/ check_reset_journal
    \/ e2fsck_journal_release
    \/ recover_got_journal
    \/ recover_loaded
    \/ recover_init_revoke
    \/ recover_journal_recover
    \/ run_close_reopen
    \/ run_clear_recover

Spec == Init /\ [][Next]_vars

---------------------------------------------------------------------------
(* The block buffer layer under arbitrary callers (SpecBuf).               *)

(* A journal superblock of a clean image, and of one with a log to replay. *)
CleanSuper ==
    [ZeroBlock EXCEPT !.h_magic = JFS_MAGIC_BE,
                      !.h_blocktype = htonl(JFS_SUPERBLOCK_V2),
                      !.s_blocksize = htonl(FsBlockSize),
                      !.s_maxlen = htonl(1025),
                      !.s_first = htonl(1),
                      !.s_sequence = htonl(7)]

DirtySuper == [CleanSuper EXCEPT !.s_start = htonl(42)]

InitBuf ==
    /\ pc = "buf"
    /\ op = "none"
    /\ ret_to = "none"
    /\ retval = 0
    /\ readonly = FALSE
    /\ sb \in {s \in SuperBlocks : s.has_journal /\ s.s_journal_inum = 8
                                   /\ s.s_journal_dev = 0 /\ s.s_journal_uuid = 0
                                   /\ s.needs_recovery /\ s.valid_fs}
    /\ super_dirty = FALSE
    /\ journal = NoJournal
    /\ recover = FALSE
    /\ reset = FALSE
    /\ recover_retval = 0
    /\ bhs = [i \in BufIds |-> NoBuf]
    /\ bh_count = 0
    /\ disk = [b \in Blocks |-> IF b = JBlk THEN DirtySuper ELSE CleanSuper]
    /\ nread = [i \in BufIds |-> 0]
    /\ nwrite = [i \in BufIds |-> 0]
    /\ asked = {}
    /\ last_prompt = [code |-> "none", answer |-> FALSE]
    /\ failures = {}
    /\ sb0 = sb
    /\ disk0 = disk
    /\ trail = <<>>

bufFrame == <<pc, op, ret_to, retval, readonly, sb, super_dirty, journal, recover,
              reset, recover_retval, asked, last_prompt, failures, sb0, disk0,
              trail>>

(* The I/O state st keeps every buffer within the I/O calls followed. *)
WithinMaxIO(st) ==
    \A i \in BufIds : st.nread[i] <= MaxIO /\ st.nwrite[i] <= MaxIO

(* The buffer lists a caller may pass: one or two outstanding buffers. *)
BufLists ==
    LET live == {i \in BufIds : bhs[i] # NoBuf}
    IN {<<i>> : i \in live} \cup {<<i, k>> : i \in live, k \in live}

(* getblk(ctx, blocknr, blocksize), lines 53-69; the i-th handle is taken  *)
(* for block i.                                                            *)
buf_getblk ==
    /\ pc = "buf"
    /\ \E i \in BufIds :
         /\ bhs[i] = NoBuf
         /\ bhs' = [bhs EXCEPT ![i] = getblk(i, FsBlockSize)]
         /\ nread' = [nread EXCEPT ![i] = 0]
         /\ nwrite' = [nwrite EXCEPT ![i] = 0]
    /\ bh_count' = bh_count + 1
    /\ UNCHANGED <<disk, bufFrame>>

(* ll_rw_block(rw, nr, bhp), lines 71-112. *)
buf_ll_rw_block ==
    /\ pc = "buf"
    /\ \E rw \in {READ, WRITE}, ids \in BufLists :
         \E ios \in [1..Len(ids) ->
                        IF rw = READ THEN ReadOutcomes ELSE WriteOutcomes] :
           LET st == ll_rw_block(rw, ids, ios, IoState)
           IN /\ WithinMaxIO(st)
              /\ SetIo(st)
    /\ UNCHANGED <<bh_count, bufFrame>>

(* mark_buffer_dirty(bh, dummy), lines 114-117. *)
buf_mark_buffer_dirty ==
    /\ pc = "buf"
    /\ \E i \in BufIds :
         /\ bhs[i] # NoBuf
         /\ SetIo(mark_buffer_dirty(i, IoState))
    /\ UNCHANGED <<bh_count, bufFrame>>

(* wait_on_buffer(bh), lines 133-137. *)
buf_wait_on_buffer ==
    /\ pc = "buf"
    /\ \E i \in BufIds, io \in ReadOutcomes :
         /\ bhs[i] # NoBuf
         /\ LET st == wait_on_buffer(i, io, IoState)
            IN WithinMaxIO(st) /\ SetIo(st)
    /\ UNCHANGED <<bh_count, bufFrame>>

(* brelse(bh), lines 119-126. *)
buf_brelse ==
    /\ pc = "buf"
    /\ \E i \in BufIds, io \in WriteOutcomes :
         /\ bhs[i] # NoBuf
         /\ LET st == brelse(i, io, IoState)
            IN WithinMaxIO(st) /\ SetIo(st)
    /\ bh_count' = bh_count - 1
    /\ UNCHANGED bufFrame

NextBuf ==
    \/ buf_getblk
    \/ buf_ll_rw_block
    \/ buf_mark_buffer_dirty
    \/ buf_wait_on_buffer
    \/ buf_brelse

SpecBuf == InitBuf /\ [][NextBuf]_vars

---------------------------------------------------------------------------
(* Properties.                                                             *)

CheckReturned == op = "check" /\ pc = "done"

RunReturned == op = "run" /\ pc = "done"

Answered(code, a) == last_prompt = [code |-> code, answer |-> a]

(* C1: whenever e2fsck_check_ext3_journal returns 0 with has_journal set,  *)
(* s_journal_dev = 0, s_journal_uuid is null and s_journal_inum # 0.       *)
C1_SuperblockConsistency ==
    (CheckReturned /\ retval = 0 /\ sb.has_journal)
        => /\ sb.s_journal_dev = 0
           /\ sb.s_journal_uuid = 0
           /\ sb.s_journal_inum # 0

(* C2: whenever e2fsck_check_ext3_journal returns 0 with has_journal       *)
(* clear, needs_recovery is clear as well.                                 *)
C2_NoRecoveryWithoutJournal ==
    (CheckReturned /\ retval = 0 /\ ~sb.has_journal) => ~sb.needs_recovery

(* C3: a corrupt journal superblock on a writable image, PR_0_JOURNAL_     *)
(* BAD_SUPER accepted and no I/O failure: when the check returns, the      *)
(* block on disk holds the reset superblock (block size of the             *)
(* filesystem, maxlen of the journal, first = 1, sequence = 1, start = 0). *)
C3_ResetSuperOnDisk ==
    (/\ CheckReturned
     /\ ~readonly
     /\ Answered("PR_0_JOURNAL_BAD_SUPER", TRUE)
     /\ failures = {})
        => LET d == disk[JBlk]
           IN /\ d.s_blocksize = htonl(FsBlockSize)
              /\ journal # NoJournal => ntohl(d.s_maxlen) = journal.j_maxlen
              /\ ntohl(d.s_first) = 1
              /\ ntohl(d.s_sequence) = 1
              /\ d.s_start = Zero32

(* C4: when e2fsck_check_ext3_journal or e2fsck_run_ext3_journal returns,  *)
(* no buffer head and no journal handle is outstanding.                    *)
C4_AllReleased ==
    pc = "done"
        => /\ bh_count = 0
           /\ \A i \in BufIds : bhs[i] = NoBuf
           /\ journal = NoJournal


(* The step taken is e2fsck_journal_release on a journal that              *)
(* e2fsck_journal_load loaded, and its write, if any, did not fail.        *)
ReleasesLoadedJournal ==
    /\ pc = "release"
    /\ pc' # "release"
    /\ journal.j_format_version # 0
    /\ "write" \notin failures'

(* What the release leaves on disk, on the block of the journal            *)
(* superblock: the sequence number of the journal_t, and start zeroed when *)
(* reset was asked, else as it was.                                        *)
ReleaseWritesBack ==
    LET blk == bhs[journal.j_sb_buffer].b_blocknr
        rst == IF op = "run" THEN TRUE ELSE reset
    IN /\ ntohl(disk'[blk].s_sequence) = journal.j_transaction_sequence
       /\ rst => disk'[blk].s_start = Zero32
       /\ ~rst => disk'[blk].s_start = disk[blk].s_start

(* C5 as stated: e2fsck_journal_release on a loaded journal, no write      *)
(* failure: on disk afterwards sequence = j_transaction_sequence, and      *)
(* start = 0 with reset, start unchanged without.                          *)
C5_ReleaseAsStated ==
    [][ReleasesLoadedJournal => ReleaseWritesBack]_vars

(* C5 amended: the same on a writable image; on a read-only image the      *)
(* release writes nothing and the block on disk is unchanged.              *)
C5_ReleaseWritable ==
    [][ReleasesLoadedJournal =>
         IF readonly THEN disk' = disk /\ nwrite' = nwrite
         ELSE ReleaseWritesBack]_vars

(* C5 witness: a check on a writable image that released a loaded journal  *)
(* with reset, turning a non-zero start on disk into 0.                    *)
C5_Witness ==
    /\ CheckReturned
    /\ ~readonly
    /\ reset
    /\ journal = NoJournal
    /\ "write" \notin failures
    /\ disk0[JBlk].s_start # Zero32
    /\ disk[JBlk].s_start = Zero32
    /\ ntohl(disk[JBlk].s_sequence) = 7

(* C6 as stated: in a buffer's lifetime at most one physical read and at   *)
(* most one physical write are issued.                                     *)
C6_OneReadOneWrite ==
    \A i \in BufIds : nread[i] <= 1 /\ nwrite[i] <= 1

(* C6 amended: a physical read is issued for a buffer only while it is not *)
(* uptodate and a physical write only while it is dirty, and uptodate is   *)
(* never cleared in a lifetime; so at most one read succeeds per lifetime, *)
(* while failed I/O is retried and every mark_buffer_dirty allows another  *)
(* write.                                                                  *)
C6_ReadWhenStaleWriteWhenDirty ==
    [][\A i \in BufIds :
         bhs[i] # NoBuf =>
           /\ nread'[i] > nread[i] => ~bhs[i].b_uptodate
           /\ nwrite'[i] > nwrite[i] => bhs[i].b_dirty
           /\ (bhs[i].b_uptodate /\ bhs'[i] # NoBuf) => bhs'[i].b_uptodate]_vars

(* C6 witness: a live buffer that was read and written more than once.     *)
C6_Witness ==
    \E i \in BufIds :
        /\ bhs[i] # NoBuf
        /\ bhs[i].b_uptodate
        /\ ~bhs[i].b_dirty
        /\ nread[i] = 2
        /\ nwrite[i] = 2

(* C7: on a read-only image e2fsck_check_ext3_journal issues no physical   *)
(* write and the image is unchanged, and e2fsck_run_ext3_journal returns   *)
(* EXT2_ET_FILE_RO having loaded nothing, recovered nothing and not closed *)
(* or reopened the image.                                                  *)
C7_ReadOnly ==
    readonly =>
        /\ \A i \in BufIds : nwrite[i] = 0
        /\ disk = disk0
        /\ op = "run" =>
             /\ pc = "done"
             /\ retval = EXT2_ET_FILE_RO
             /\ journal = NoJournal
             /\ trail = <<>>
             /\ sb = sb0
             /\ \A i \in BufIds : bhs[i] = NoBuf /\ nread[i] = 0

(* C7 witness: a read-only check that accepted the journal reset and       *)
(* released the journal.                                                   *)
C7_Witness ==
    /\ CheckReturned
    /\ readonly
    /\ reset
    /\ journal = NoJournal
    /\ Answered("PR_0_JOURNAL_RESET_JOURNAL", TRUE)


Range(q) == {q[i] : i \in DOMAIN q}

Count(q, x) == Cardinality({i \in DOMAIN q : q[i] = x})

(* C8: on a writable image every return of e2fsck_run_ext3_journal comes   *)
(* through one ext2fs_close / ext2fs_open made after recover_ext3_journal  *)
(* has returned (with any code), then e2fsck_clear_recover on the reopened *)
(* superblock: needs_recovery cleared, superblock dirty, valid_fs cleared  *)
(* exactly when the recovery code is non-zero, and that code returned.     *)
C8_RunReopensOnce ==
    [][(op = "run" /\ ~readonly) =>
         /\ (pc' = "done" /\ pc # "done") =>
              /\ pc = "run_clear"
              /\ retval' = recover_retval
              /\ sb' = [sb EXCEPT !.needs_recovery = FALSE,
                                  !.valid_fs = IF recover_retval # 0
                                               THEN FALSE ELSE @]
              /\ super_dirty'
              /\ Count(trail', "close") = 1
              /\ Count(trail', "open") = 1
         /\ (pc' = "run_clear" /\ pc # "run_clear") => pc = "close_reopen"
         /\ (pc = "close_reopen" /\ pc' # "close_reopen") =>
              /\ "close" \notin Range(trail)
              /\ "open" \notin Range(trail)
              /\ trail' = trail \o <<"close", "open">>
              /\ recover_retval' = recover_retval
         /\ (pc' = "close_reopen" /\ pc # "close_reopen") =>
              /\ recover_retval' = retval'
              /\ pc \in {"rec_got_journal", "rec_loaded", "init_revoke", "release"}
              /\ retval' = 0 => (journal' = NoJournal /\ "recover" \in Range(trail'))
      ]_vars

(* C8 witness: a run on a writable image whose recovery succeeded and      *)
(* which returned 0 with valid_fs as reopened (set).                       *)
C8_Witness ==
    /\ RunReturned
    /\ ~readonly
    /\ retval = 0
    /\ "recover" \in Range(trail)
    /\ sb.valid_fs
    /\ ~sb.needs_recovery
    /\ super_dirty

(* C9 as stated: in the HAS_JOURNAL / RECOVER_SET loop no question is      *)
(* asked again on the same superblock.                                     *)
C9_NoRepeatedQuestion ==
    /\ (pc = "no_has_journal" /\ ~sb.has_journal)
          => <<"PR_0_JOURNAL_HAS_JOURNAL", sb>> \notin asked
    /\ pc = "recover_set"
          => <<"PR_0_JOURNAL_RECOVER_SET", sb>> \notin asked

(* How far a position is from the return. *)
Rank ==
    CASE pc = "idle" -> 30
      [] pc = "get_journal" -> 29
      [] pc = "gj_unsupp_dev" -> 28
      [] pc = "gj_unsupp_uuid" -> 27
      [] pc = "gj_inum" -> 26
      [] pc = "gj_bad_dev" -> 25
      [] pc = "gj_bad_uuid" -> 24
      [] pc = "init_inode" -> 23
      [] pc \in {"chk_got_journal", "rec_got_journal"} -> 22
      [] pc = "load" -> 21
      [] pc = "fix_bad_inode" -> IF ret_to = "load" THEN 20 ELSE 5
      [] pc \in {"chk_loaded", "rec_loaded"} -> 19
      [] pc = "fix_corrupt_super" -> 18
      [] pc = "no_has_journal" -> 17
      [] pc = "recover_set" -> 16
      [] pc = "reset_journal" -> 15
      [] pc = "init_revoke" -> 14
      [] pc = "recover" -> 13
      [] pc = "release" -> 12
      [] pc = "close_reopen" -> 11
      [] pc = "run_clear" -> 10
      [] OTHER -> 0

(* C9 amended: every step of e2fsck_check_ext3_journal moves towards the   *)
(* return, except the step back to no_has_journal after HAS_JOURNAL was    *)
(* accepted and RECOVER_SET declined, which leaves the superblock as it    *)
(* was (has_journal clear, needs_recovery set): the check ends unless the  *)
(* user keeps giving that pair of answers, and only those two questions    *)
(* are ever asked again.                                                   *)
C9_OnlyDeclinedRecoverSetLoops ==
    [][op' = "check" =>
         \/ Rank' < Rank
         \/ /\ pc = "recover_set"
            /\ pc' = "no_has_journal"
            /\ sb' = sb
            /\ ~sb.has_journal
            /\ sb.needs_recovery
            /\ last_prompt' = [code |-> "PR_0_JOURNAL_RECOVER_SET",
                               answer |-> FALSE]
            /\ <<"PR_0_JOURNAL_HAS_JOURNAL", sb>> \in asked]_vars

(* C9 witness: back at no_has_journal with both questions already asked on *)
(* this very superblock.                                                   *)
C9_Witness ==
    /\ op = "check"
    /\ pc = "no_has_journal"
    /\ <<"PR_0_JOURNAL_HAS_JOURNAL", sb>> \in asked
    /\ <<"PR_0_JOURNAL_RECOVER_SET", sb>> \in asked

(* The step taken is e2fsck_journal_fix_corrupt_super with has_journal     *)
(* set: PR_0_JOURNAL_BAD_SUPER is asked.                                   *)
AsksBadSuper ==
    /\ pc = "fix_corrupt_super"
    /\ pc' # "fix_corrupt_super"
    /\ sb.has_journal

(* PR_0_JOURNAL_BAD_SUPER declined: EXT2_ET_CORRUPT_SUPERBLOCK, and the    *)
(* filesystem superblock and the journal superblock (on disk and in the    *)
(* buffer) as they were.                                                   *)
BadSuperDeclined ==
    /\ pc' = "done"
    /\ retval' = EXT2_ET_CORRUPT_SUPERBLOCK
    /\ sb' = sb
    /\ super_dirty' = super_dirty
    /\ disk' = disk
    /\ bhs' = bhs

(* C10 as stated: BAD_SUPER accepted returns 0 with j_transaction_sequence *)
(* = 1, needs_recovery clear and valid_fs clear whatever they were;        *)
(* declined returns EXT2_ET_CORRUPT_SUPERBLOCK with both superblocks       *)
(* unchanged.                                                              *)
C10_BadSuperAsStated ==
    [][AsksBadSuper =>
         IF last_prompt'.answer
         THEN /\ pc' = "done"
              /\ retval' = 0
              /\ journal'.j_transaction_sequence = 1
              /\ ~sb'.needs_recovery
              /\ ~sb'.valid_fs
         ELSE BadSuperDeclined]_vars

(* C10 amended: accepted returns 0 with j_transaction_sequence = 1,        *)
(* needs_recovery clear and the superblock dirty, and valid_fs cleared     *)
(* only when needs_recovery was set (else left as it was); declined as     *)
(* stated.                                                                 *)
C10_BadSuperValidOnlyIfRecover ==
    [][AsksBadSuper =>
         IF last_prompt'.answer
         THEN /\ pc' = "done"
              /\ retval' = 0
              /\ journal'.j_transaction_sequence = 1
              /\ sb' = [sb EXCEPT !.needs_recovery = FALSE,
                                  !.valid_fs = IF sb.needs_recovery
                                               THEN FALSE ELSE @]
              /\ super_dirty'
         ELSE BadSuperDeclined]_vars

(* C10 witness: BAD_SUPER accepted with needs_recovery clear: the check    *)
(* returned 0 with valid_fs still set.                                     *)
C10_Witness ==
    /\ CheckReturned
    /\ Answered("PR_0_JOURNAL_BAD_SUPER", TRUE)
    /\ retval = 0
    /\ journal # NoJournal
    /\ journal.j_transaction_sequence = 1
    /\ ~sb0.needs_recovery
    /\ sb.valid_fs

(* The step taken is e2fsck_journal_fix_bad_inode called from line 499     *)
(* after e2fsck_journal_init_inode read the journal inode and rejected it  *)
(* (lines 183-189), with has_journal set or s_journal_inum non-zero.       *)
FixesRejectedInode ==
    /\ op = "check"
    /\ pc = "fix_bad_inode"
    /\ pc' # "fix_bad_inode"
    /\ ret_to = "check"
    /\ "read_inode" \in Range(trail)
    /\ "read_inode" \notin failures
    /\ sb.has_journal \/ sb.s_journal_inum # 0

(* C11: a journal inode that fails validation, with has_journal set or     *)
(* s_journal_inum non-zero: PR_0_JOURNAL_BAD_INODE is asked; accepted, the *)
(* check returns 0 with has_journal, s_journal_inum, needs_recovery and    *)
(* valid_fs cleared and the superblock dirty; declined, it returns         *)
(* EXT2_ET_BAD_INODE_NUM with the superblock as it was.                    *)
C11_BadInodeFix ==
    [][FixesRejectedInode =>
         /\ last_prompt'.code = "PR_0_JOURNAL_BAD_INODE"
         /\ <<"PR_0_JOURNAL_BAD_INODE", sb>> \in asked'
         /\ pc' = "done"
         /\ IF last_prompt'.answer
            THEN /\ retval' = 0
                 /\ sb' = [sb EXCEPT !.has_journal = FALSE,
                                     !.s_journal_inum = 0,
                                     !.needs_recovery = FALSE,
                                     !.valid_fs = FALSE]
                 /\ super_dirty'
            ELSE /\ retval' = EXT2_ET_BAD_INODE_NUM
                 /\ sb' = sb
                 /\ super_dirty' = super_dirty]_vars

(* C11 witness: the inode was read and rejected, BAD_INODE was accepted,   *)
(* and the check returned 0 having removed a journal that was marked       *)
(* present, in need of recovery, on a filesystem marked valid.             *)
C11_Witness ==
    /\ CheckReturned
    /\ Answered("PR_0_JOURNAL_BAD_INODE", TRUE)
    /\ retval = 0
    /\ journal = NoJournal
    /\ "read_inode" \in Range(trail)
    /\ "read_inode" \notin failures
    /\ sb0.has_journal /\ sb0.needs_recovery /\ sb0.valid_fs
    /\ sb0.s_journal_inum # 0
    /\ ~sb.has_journal /\ ~sb.needs_recovery /\ ~sb.valid_fs
    /\ sb.s_journal_inum = 0
    /\ super_dirty

(* The step taken is lines 218-226 of e2fsck_get_journal, called by the    *)
(* check, with has_journal set and s_journal_dev non-zero.                 *)
AsksUnsuppDev ==
    /\ op = "check"
    /\ pc = "gj_unsupp_dev"
    /\ pc' # "gj_unsupp_dev"
    /\ sb.s_journal_dev # 0

(* Nothing was read: no inode, no block, no buffer taken. *)
NothingRead ==
    /\ trail = <<>>
    /\ \A i \in BufIds : bhs[i] = NoBuf /\ nread[i] = 0 /\ nwrite[i] = 0
    /\ journal = NoJournal
    /\ disk = disk0

(* C12: has_journal set and s_journal_dev non-zero: the first question of  *)
(* the check is PR_0_JOURNAL_UNSUPP_DEV, asked on the superblock as it was *)
(* at entry; accepted, s_journal_dev is zeroed, valid_fs cleared and the   *)
(* superblock marked dirty; declined, the check returns                    *)
(* EXT2_ET_UNSUPP_FEATURE with the superblock as at entry, not dirty, no   *)
(* inode and no block read.                                                *)
C12_UnsuppDev ==
    /\ [][AsksUnsuppDev =>
            /\ sb.has_journal
            /\ asked = {}
            /\ sb = sb0
            /\ ~super_dirty
            /\ NothingRead
            /\ last_prompt'.code = "PR_0_JOURNAL_UNSUPP_DEV"
            /\ IF last_prompt'.answer
               THEN /\ sb' = [sb EXCEPT !.s_journal_dev = 0,
                                        !.valid_fs = FALSE]
                    /\ super_dirty'
               ELSE /\ retval' = EXT2_ET_UNSUPP_FEATURE
                    /\ pc' = "chk_got_journal"
                    /\ sb' = sb
                    /\ ~super_dirty']_vars
    /\ []((op = "check" /\ sb0.has_journal /\ sb0.s_journal_dev # 0) =>
            /\ asked # {} => <<"PR_0_JOURNAL_UNSUPP_DEV", sb0>> \in asked
            /\ (pc \in {"chk_got_journal", "done"}
                /\ Answered("PR_0_JOURNAL_UNSUPP_DEV", FALSE)) =>
                 /\ retval = EXT2_ET_UNSUPP_FEATURE
                 /\ sb = sb0
                 /\ ~super_dirty
                 /\ asked = {<<"PR_0_JOURNAL_UNSUPP_DEV", sb0>>}
                 /\ NothingRead)

(* C12 witness: the check returned after PR_0_JOURNAL_UNSUPP_DEV was       *)
(* declined on a superblock marked valid.                                  *)
C12_Witness ==
    /\ CheckReturned
    /\ Answered("PR_0_JOURNAL_UNSUPP_DEV", FALSE)
    /\ retval = EXT2_ET_UNSUPP_FEATURE
    /\ sb0.has_journal
    /\ sb0.s_journal_dev # 0
    /\ sb.valid_fs

(* The accepted case of C12 happens as well. *)
C12_AcceptedReached ==
    /\ CheckReturned
    /\ <<"PR_0_JOURNAL_UNSUPP_DEV", sb0>> \in asked
    /\ sb0.valid_fs
    /\ sb0.s_journal_dev # 0
    /\ sb.s_journal_dev = 0
    /\ ~sb.valid_fs
    /\ super_dirty

(* The step taken is the removal of lines 528-535: PR_0_JOURNAL_HAS_JOURNAL *)
(* accepted (and PR_0_JOURNAL_RECOVER_SET, when asked, accepted too).      *)
HasJournalRemoval ==
    /\ op = "check"
    /\ pc \in {"no_has_journal", "recover_set"}
    /\ ~sb.has_journal
    /\ pc' = "reset_journal"
    /\ last_prompt'.answer

(* The step taken is an accepted PR_0_JOURNAL_BAD_INODE. *)
BadInodeRemoval ==
    /\ op = "check"
    /\ pc = "fix_bad_inode"
    /\ pc' # "fix_bad_inode"
    /\ last_prompt' = [code |-> "PR_0_JOURNAL_BAD_INODE", answer |-> TRUE]

(* C13: when the check removes the journal (an accepted BAD_INODE, or the  *)
(* journal fields cleared after an accepted HAS_JOURNAL) and s_journal_inum *)
(* at entry was below EXT2_FIRST_INODE, valid_fs is clear afterwards and   *)
(* stays clear until the return; the HAS_JOURNAL removal clears valid_fs   *)
(* exactly when needs_recovery was set or s_journal_inum is below          *)
(* EXT2_FIRST_INODE, and else leaves it as it was.                         *)
C13_ForceFsck ==
    /\ [][(BadInodeRemoval \/ HasJournalRemoval) =>
            /\ ~sb'.has_journal
            /\ sb'.s_journal_inum = 0
            /\ sb0.s_journal_inum < EXT2_FIRST_INODE => ~sb'.valid_fs]_vars
    /\ [][HasJournalRemoval =>
            /\ sb'.valid_fs = IF \/ sb.needs_recovery
                                 \/ sb.s_journal_inum < EXT2_FIRST_INODE
                              THEN FALSE ELSE sb.valid_fs
            /\ sb'.s_journal_dev = 0
            /\ sb'.s_journal_uuid = 0
            /\ ~sb'.needs_recovery
            /\ super_dirty']_vars
    /\ [][op' = "check" => (sb'.valid_fs => sb.valid_fs)]_vars

(* C13 witness: a journal on the reserved inode 8, no recovery pending,    *)
(* filesystem marked valid: HAS_JOURNAL was accepted and the check         *)
(* returned with the journal fields and valid_fs cleared.                  *)
C13_Witness ==
    /\ CheckReturned
    /\ Answered("PR_0_JOURNAL_HAS_JOURNAL", TRUE)
    /\ asked = {<<"PR_0_JOURNAL_HAS_JOURNAL", sb0>>}
    /\ sb0.s_journal_inum = 8
    /\ ~sb0.needs_recovery
    /\ sb0.valid_fs
    /\ sb.s_journal_inum = 0
    /\ ~sb.valid_fs

(* The other side of C13 happens as well: a journal on inode 12, no        *)
(* recovery pending, is removed and valid_fs stays set.                    *)
C13_PreservedReached ==
    /\ CheckReturned
    /\ Answered("PR_0_JOURNAL_HAS_JOURNAL", TRUE)
    /\ sb0.s_journal_inum = 12
    /\ sb.s_journal_inum = 0
    /\ sb.valid_fs

(* The superblock s has no journal feature at all (lines 485-487). *)
NoJournalFeatures(s) ==
    /\ ~s.has_journal
    /\ ~s.needs_recovery
    /\ s.s_journal_inum = 0
    /\ s.s_journal_dev = 0
    /\ s.s_journal_uuid = 0

(* C14: on a superblock with has_journal and needs_recovery clear,         *)
(* s_journal_inum = 0, s_journal_dev = 0 and a null s_journal_uuid, the    *)
(* check returns 0 at once: no question asked, no inode read, no block     *)
(* I/O, the superblock and its dirty mark as they were.                    *)
C14_NothingToDo ==
    (op = "check" /\ NoJournalFeatures(sb0)) =>
        /\ pc = "done"
        /\ retval = 0
        /\ asked = {}
        /\ last_prompt.code = "none"
        /\ NothingRead
        /\ failures = {}
        /\ sb = sb0
        /\ ~super_dirty

(* C14 witness: the check returned on such a superblock, marked valid. *)
C14_Witness ==
    /\ CheckReturned
    /\ NoJournalFeatures(sb0)
    /\ sb0.valid_fs
    /\ retval = 0

(* The journal superblock buffer was read and does not hold the magic. *)
LoadedBadMagic ==
    /\ journal # NoJournal
    /\ bhs[journal.j_sb_buffer] # NoBuf
    /\ bhs[journal.j_sb_buffer].b_uptodate
    /\ bhs[journal.j_sb_buffer].b_data.h_magic # JFS_MAGIC_BE

(* C15: e2fsck_journal_load on a block without the journal magic returns   *)
(* EXT2_ET_BAD_INODE_NUM, never 0, so the check never reaches the          *)
(* HAS_JOURNAL question, the RESET_JOURNAL question or the release with    *)
(* such a journal.                                                         *)
C15_BadMagicIsBadInode ==
    LoadedBadMagic =>
        /\ pc \in {"chk_loaded", "rec_loaded"} => retval = EXT2_ET_BAD_INODE_NUM
        /\ pc \notin {"no_has_journal", "recover_set", "reset_journal",
                      "release"}

(* The journal superblock jsb has the magic but a format the checker does  *)
(* not know: its block type, an incompat bit or a ro_compat bit.           *)
UnknownFormat(jsb) ==
    /\ jsb.h_magic = JFS_MAGIC_BE
    /\ \/ ntohl(jsb.h_blocktype) \notin {JFS_SUPERBLOCK_V1, JFS_SUPERBLOCK_V2}
       \/ JFS_HAS_INCOMPAT_FEATURE(jsb)
       \/ JFS_HAS_RO_COMPAT_FEATURE(jsb)

(* What e2fsck_journal_load is to return for it. *)
UnknownFormatError(jsb) ==
    IF \/ ntohl(jsb.h_blocktype) \notin {JFS_SUPERBLOCK_V1, JFS_SUPERBLOCK_V2}
       \/ JFS_HAS_INCOMPAT_FEATURE(jsb)
    THEN EXT2_ET_UNSUPP_FEATURE
    ELSE EXT2_ET_RO_UNSUPP_FEATURE

(* The journal superblock buffer was read and holds such a superblock. *)
LoadedUnknownFormat ==
    /\ journal # NoJournal
    /\ bhs[journal.j_sb_buffer] # NoBuf
    /\ bhs[journal.j_sb_buffer].b_uptodate
    /\ UnknownFormat(bhs[journal.j_sb_buffer].b_data)

(* C16 as stated: a journal superblock of unknown format, even with a      *)
(* wrong block size or length: the check returns EXT2_ET_UNSUPP_FEATURE    *)
(* (EXT2_ET_RO_UNSUPP_FEATURE for ro_compat), the journal superblock not   *)
(* rewritten and the filesystem superblock not modified.                   *)
C16_GatingAsStated ==
    (CheckReturned /\ LoadedUnknownFormat) =>
        /\ retval = UnknownFormatError(disk0[JBlk])
        /\ disk = disk0
        /\ bhs[journal.j_sb_buffer].b_data = disk0[JBlk]
        /\ \A i \in BufIds : nwrite[i] = 0
        /\ sb = sb0

(* C16 amended: e2fsck_journal_load returns that error, and the check      *)
(* returns it with the journal superblock not rewritten and the filesystem *)
(* superblock as it was when e2fsck_journal_load was called: what the      *)
(* device and uuid questions of e2fsck_get_journal changed before stays    *)
(* changed.                                                                *)
C16_GatingBeforeRepair ==
    /\ [][(pc = "load" /\ pc' # "load"
           /\ bhs'[journal.j_sb_buffer].b_err = 0
           /\ UnknownFormat(disk[JBlk])) =>
            /\ pc' \in {"chk_loaded", "rec_loaded"}
            /\ retval' = UnknownFormatError(disk[JBlk])
            /\ sb' = sb
            /\ super_dirty' = super_dirty
            /\ asked' = asked
            /\ disk' = disk
            /\ bhs'[journal.j_sb_buffer].b_data = disk[JBlk]]_vars
    /\ [][(op = "check" /\ pc = "chk_loaded" /\ LoadedUnknownFormat) =>
            /\ pc' \in {"chk_loaded", "done"}
            /\ retval' = retval
            /\ sb' = sb
            /\ super_dirty' = super_dirty
            /\ asked' = asked
            /\ disk' = disk
            /\ bhs' = bhs
            /\ nwrite' = nwrite]_vars
    /\ []((CheckReturned /\ LoadedUnknownFormat) =>
            /\ retval = UnknownFormatError(disk0[JBlk])
            /\ disk = disk0
            /\ bhs[journal.j_sb_buffer].b_data = disk0[JBlk]
            /\ \A i \in BufIds : nwrite[i] = 0
            /\ \A q \in asked : q[1] \in {"PR_0_JOURNAL_UNSUPP_DEV",
                                          "PR_0_JOURNAL_UNSUPP_UUID",
                                          "PR_0_JOURNAL_BAD_DEV",
                                          "PR_0_JOURNAL_BAD_UUID"}
            /\ sb = [sb0 EXCEPT !.s_journal_dev = sb.s_journal_dev,
                                !.s_journal_uuid = sb.s_journal_uuid,
                                !.valid_fs = sb.valid_fs])

(* C16 witness: a superblock of unknown block type whose block size is     *)
(* wrong as well; the check returned EXT2_ET_UNSUPP_FEATURE after an       *)
(* accepted device question had changed the filesystem superblock.         *)
C16_Witness ==
    /\ CheckReturned
    /\ LoadedUnknownFormat
    /\ retval = EXT2_ET_UNSUPP_FEATURE
    /\ ntohl(disk0[JBlk].h_blocktype) = 9
    /\ disk0[JBlk].s_blocksize # htonl(FsBlockSize)
    /\ sb # sb0

(* C17: e2fsck_journal_load reported a format it does not know and         *)
(* has_journal is set: the check asks PR_0_JOURNAL_UNSUPP_SUPER; accepted, *)
(* it returns EXT2_ET_CORRUPT_SUPERBLOCK; declined, it goes on as          *)
(* e2fsck_journal_fix_bad_inode does.                                      *)
C17_AsksUnsuppSuper ==
    [][(op = "check" /\ pc = "chk_loaded" /\ pc' # "chk_loaded"
        /\ LoadedUnknownFormat /\ sb.has_journal) =>
         \E a \in BOOLEAN :
            /\ asked' = asked \cup {<<"PR_0_JOURNAL_UNSUPP_SUPER", sb>>}
            /\ last_prompt' = [code |-> "PR_0_JOURNAL_UNSUPP_SUPER",
                               answer |-> a]
            /\ IF a
               THEN /\ pc' = "done"
                    /\ retval' = journal_fix_unsupported_super(sb, a, a).ret
                    /\ retval' = EXT2_ET_CORRUPT_SUPERBLOCK
                    /\ sb' = sb
               ELSE pc' = "fix_bad_inode"]_vars

(* The step taken is lines 542-561 of the check with has_journal set,      *)
(* needs_recovery clear and a non-zero s_start in the journal superblock   *)
(* on disk.                                                                *)
ReachesResetQuestion ==
    /\ op = "check"
    /\ pc = "reset_journal"
    /\ pc' # "reset_journal"
    /\ sb.has_journal
    /\ ~sb.needs_recovery
    /\ disk[JBlk].s_start # Zero32

(* PR_0_JOURNAL_RESET_JOURNAL is asked; accepted, valid_fs is cleared, the *)
(* superblock marked dirty and reset requested; declined, all three are    *)
(* left as they were.                                                      *)
ResetQuestionAnswered ==
    /\ last_prompt'.code = "PR_0_JOURNAL_RESET_JOURNAL"
    /\ asked' = asked \cup {<<"PR_0_JOURNAL_RESET_JOURNAL", sb>>}
    /\ pc' = "release"
    /\ IF last_prompt'.answer
       THEN /\ sb' = [sb EXCEPT !.valid_fs = FALSE]
            /\ super_dirty'
            /\ reset'
       ELSE /\ sb' = sb
            /\ super_dirty' = super_dirty
            /\ reset' = reset

(* The check never calls journal_init_revoke or journal_recover. *)
CheckNeverRecovers ==
    op = "check" =>
        /\ "init_revoke" \notin Range(trail)
        /\ "recover" \notin Range(trail)

(* C18 as stated: the question is asked; accepted, the journal is released *)
(* with reset and s_start on disk becomes 0 (unless the write fails);      *)
(* declined, s_start on disk and valid_fs are unchanged; the check never   *)
(* recovers.                                                               *)
C18_ResetAsStated ==
    /\ [][ReachesResetQuestion => ResetQuestionAnswered]_vars
    /\ []((CheckReturned /\ last_prompt.code = "PR_0_JOURNAL_RESET_JOURNAL") =>
            /\ journal = NoJournal
            /\ IF last_prompt.answer
               THEN "write" \notin failures => disk[JBlk].s_start = Zero32
               ELSE disk[JBlk].s_start = disk0[JBlk].s_start)
    /\ []CheckNeverRecovers

(* C18 amended: as stated, but s_start on disk becomes 0 on a writable     *)
(* image whose write-back does not fail; on a read-only image the release  *)
(* writes nothing and s_start on disk stays non-zero though reset was      *)
(* requested.                                                              *)
C18_ResetWritable ==
    /\ [][ReachesResetQuestion => ResetQuestionAnswered]_vars
    /\ []((CheckReturned /\ last_prompt.code = "PR_0_JOURNAL_RESET_JOURNAL") =>
            /\ journal = NoJournal
            /\ IF last_prompt.answer
               THEN /\ reset
                    /\ ~sb.valid_fs
                    /\ super_dirty
                    /\ IF readonly
                       THEN disk = disk0
                       ELSE "write" \notin failures
                               => disk[JBlk].s_start = Zero32
               ELSE disk[JBlk].s_start = disk0[JBlk].s_start)
    /\ []CheckNeverRecovers

(* C18 witness: on a writable image marked valid the reset was accepted    *)
(* and the check returned with valid_fs clear and s_start zeroed on disk.  *)
C18_Witness ==
    /\ CheckReturned
    /\ Answered("PR_0_JOURNAL_RESET_JOURNAL", TRUE)
    /\ ~readonly
    /\ "write" \notin failures
    /\ sb0.valid_fs
    /\ ~sb.valid_fs
    /\ super_dirty
    /\ disk0[JBlk].s_start # Zero32
    /\ disk[JBlk].s_start = Zero32

(* The declined case of C18 happens as well. *)
C18_DeclinedReached ==
    /\ CheckReturned
    /\ Answered("PR_0_JOURNAL_RESET_JOURNAL", FALSE)
    /\ ~readonly
    /\ sb.valid_fs
    /\ disk[JBlk].s_start # Zero32

(* What ll_rw_block(rw, ...) is to leave of the buffer head bh when the    *)
(* I/O it issues for it, if any, returns io, the image being d.            *)
RwExpected(rw, bh, io, d) ==
    IF rw = READ
    THEN IF bh.b_uptodate THEN bh
         ELSE IF io # 0 THEN [bh EXCEPT !.b_err = io]
         ELSE [bh EXCEPT !.b_uptodate = TRUE, !.b_data = d[bh.b_blocknr]]
    ELSE IF ~bh.b_dirty THEN bh
         ELSE IF io # 0 THEN [bh EXCEPT !.b_err = io]
         ELSE [bh EXCEPT !.b_dirty = FALSE, !.b_uptodate = TRUE]

(* Every call of ll_rw_block a caller may make in this state, on a list of *)
(* distinct buffers, treats each buffer of the list by itself, whatever    *)
(* happens to the others, and leaves the buffers outside the list alone.   *)
RwBlockIndependent ==
    \A rw \in {READ, WRITE} :
      \A ids \in {l \in BufLists : Len(l) = 1 \/ l[1] # l[2]} :
        \A ios \in [1..Len(ids) ->
                      IF rw = READ THEN ReadOutcomes ELSE WriteOutcomes] :
          LET r == ll_rw_block(rw, ids, ios, IoState)
          IN /\ \A k \in DOMAIN ids :
                  LET i == ids[k]
                      bh == bhs[i]
                      rd == rw = READ /\ ~bh.b_uptodate
                      wr == rw = WRITE /\ bh.b_dirty
                  IN /\ r.bhs[i] = RwExpected(rw, bh, ios[k], disk)
                     /\ r.nread[i] = nread[i] + (IF rd THEN 1 ELSE 0)
                     /\ r.nwrite[i] = nwrite[i] + (IF wr THEN 1 ELSE 0)
                     /\ r.disk[bh.b_blocknr] =
                          IF wr /\ ios[k] = 0 THEN bh.b_data
                          ELSE disk[bh.b_blocknr]
             /\ \A i \in BufIds :
                  (\A k \in DOMAIN ids : ids[k] # i) =>
                     /\ r.bhs[i] = bhs[i]
                     /\ r.nread[i] = nread[i]
                     /\ r.nwrite[i] = nwrite[i]

(* Every brelse a caller may make in this state frees the handle, writing  *)
(* the buffer back first when it is dirty, whether the write fails or not. *)
BrelseAlwaysFrees ==
    \A i \in {k \in BufIds : bhs[k] # NoBuf} :
      \A io \in WriteOutcomes :
        LET r == brelse(i, io, IoState)
            bh == bhs[i]
        IN /\ r.bhs[i] = NoBuf
           /\ r.nwrite[i] = nwrite[i] + (IF bh.b_dirty THEN 1 ELSE 0)
           /\ r.nread[i] = nread[i]
           /\ r.disk[bh.b_blocknr] =
                IF bh.b_dirty /\ io = 0 THEN bh.b_data ELSE disk[bh.b_blocknr]

(* What a step may change of a buffer that stays outstanding: uptodate is  *)
(* only ever set, and by an I/O; dirty is cleared only by a write that     *)
(* put the data on disk; an error is recorded only by an I/O.              *)
BufferFlagsFollowIo ==
    \A i \in BufIds :
      (bhs[i] # NoBuf /\ bhs'[i] # NoBuf) =>
        LET io == nread'[i] > nread[i] \/ nwrite'[i] > nwrite[i]
        IN /\ bhs'[i].b_uptodate # bhs[i].b_uptodate
                => bhs'[i].b_uptodate /\ io
           /\ (bhs[i].b_dirty /\ ~bhs'[i].b_dirty)
                => /\ nwrite'[i] > nwrite[i]
                   /\ bhs'[i].b_uptodate
                   /\ disk'[bhs[i].b_blocknr] = bhs[i].b_data
           /\ bhs'[i].b_err # bhs[i].b_err => bhs'[i].b_err # 0 /\ io
           /\ ~io => /\ bhs'[i].b_data = bhs[i].b_data
                     /\ disk'[bhs[i].b_blocknr] = disk[bhs[i].b_blocknr]

(* C19: ll_rw_block treats each buffer of its list by itself: a failed     *)
(* read records the error and leaves uptodate clear, a failed write        *)
(* records the error and leaves dirty set, and the rest of the list is     *)
(* still processed; a successful read sets uptodate, a successful write of *)
(* a dirty buffer clears dirty and sets uptodate; READ of an uptodate      *)
(* buffer and WRITE of a clean one issue no I/O and change nothing; brelse *)
(* frees the handle even when its write-back fails.                        *)
C19_BuffersIndependent ==
    /\ []RwBlockIndependent
    /\ []BrelseAlwaysFrees
    /\ [][BufferFlagsFollowIo]_vars

(* C19 witness: of two outstanding buffers the first one's read failed     *)
(* (error recorded, not uptodate) and the second one's read succeeded, one *)
(* read issued for each.                                                   *)
C19_Witness ==
    /\ bhs[1] # NoBuf
    /\ bhs[2] # NoBuf
    /\ bhs[1].b_err = EXT2_ET_SHORT_READ
    /\ ~bhs[1].b_uptodate
    /\ bhs[2].b_uptodate
    /\ bhs[2].b_err = 0
    /\ bhs[2].b_data = disk[2]
    /\ nread = <<1, 1>>
    /\ nwrite = <<0, 0>>

(* C20: the check issues a physical write to the block at the journal      *)
(* inode's logical block 0 only if that block, as it was on the image,     *)
(* has the journal magic, block type V1 or V2 and no unknown feature bit;  *)
(* a block without the magic is never written to.                          *)
C20_WritesOnlyValidated ==
    (op = "check" /\ ((\E i \in BufIds : nwrite[i] > 0) \/ disk # disk0)) =>
        /\ disk0[JBlk].h_magic = JFS_MAGIC_BE
        /\ ~UnknownFormat(disk0[JBlk])

(* C21: whenever e2fsck_check_ext3_journal or e2fsck_run_ext3_journal      *)
(* changes a field of the in-memory superblock, the superblock is marked   *)
(* dirty: every step that assigns a field leaves the mark set, the mark is *)
(* never taken back (only ext2fs_close / ext2fs_open, which write the      *)
(* superblock out and read it again, start afresh), and so at every return *)
(* a superblock that differs from the one at entry is marked dirty.        *)
C21_ChangedMeansDirty ==
    /\ [][(sb' # sb /\ pc # "close_reopen") => super_dirty']_vars
    /\ [][(super_dirty /\ pc # "close_reopen") => super_dirty']_vars
    /\ []((pc = "done" /\ sb # sb0) => super_dirty)

(* C21 witness: a check on a writable image declined HAS_JOURNAL, which    *)
(* set has_journal (line 537), and returned with the superblock changed    *)
(* and marked dirty.                                                       *)
C21_Witness ==
    /\ CheckReturned
    /\ ~readonly
    /\ Answered("PR_0_JOURNAL_HAS_JOURNAL", FALSE)
    /\ ~sb0.has_journal
    /\ sb.has_journal
    /\ sb # sb0
    /\ super_dirty

(* The same at a return of e2fsck_run_ext3_journal. *)
C21_RunReached ==
    /\ RunReturned
    /\ ~readonly
    /\ sb # sb0
    /\ super_dirty

====
